---- MODULE Spec2Model ----
(***************************************************************************)
(* Authentication / authorization core of the one-system backend:          *)
(*   app/core/config.py    Settings.auth_disabled, cognito_configured      *)
(*   app/core/security.py  _get_jwks, _verify_cognito_jwt,                 *)
(*                         get_current_user, _dev_cognito_sub              *)
(*   app/main.py           create_app.dev_auth_middleware                  *)
(* The program runs on one asyncio event loop: the code between two awaits *)
(* is one atomic step, and every await is a point where another task may   *)
(* run.  Each inbound request is one task with its own contextvars copy.   *)
(***************************************************************************)
EXTENDS Integers, Sequences, FiniteSets, TLC

(* ------------------------------ bounds --------------------------------- *)
\* number of concurrently live tasks (requests or direct _get_jwks calls)
MaxTasks == 2
\* last value of the monotonic clock the model explores
MaxClock == 3
\* settings.jwks_cache_ttl scaled to the model's clock (86400 s in config.py)
JwksCacheTtl == 2

Tasks == 1..MaxTasks
\* rows the users table may hold
MaxUsers == 5

(* ------------------------------ settings ------------------------------- *)
Environments == {"development", "staging", "production"}

\* (cognito_user_pool_id, cognito_app_client_id): "" is the unset default
ProviderIds == { <<"pool", "client">>, <<"", "client">>, <<"pool", "">>, <<"", "">> }

Configs ==
  { [environment |-> e, dev_skip_auth |-> b,
     cognito_user_pool_id |-> p[1], cognito_app_client_id |-> p[2]] :
    e \in Environments, b \in BOOLEAN, p \in ProviderIds }

is_development(cfg) == cfg.environment = "development"

auth_disabled_flag_only(cfg) == cfg.dev_skip_auth

auth_disabled(cfg) == is_development(cfg) /\ cfg.dev_skip_auth

cognito_configured_either(cfg) ==
  cfg.cognito_user_pool_id # "" \/ cfg.cognito_app_client_id # ""

cognito_configured(cfg) ==
  cfg.cognito_user_pool_id # "" /\ cfg.cognito_app_client_id # ""

(* ------------------------------ users table ---------------------------- *)
\* rows of the users table: id, cognito_user_id, email, role, is_active
UserTable ==
  { [id |-> 1, cognito_user_id |-> "s1", email |-> "e1", role |-> "ADMIN",   is_active |-> TRUE],
    [id |-> 2, cognito_user_id |-> "s2", email |-> "e2", role |-> "OFFICER", is_active |-> TRUE],
    [id |-> 3, cognito_user_id |-> "s3", email |-> "e3", role |-> "ADMIN",   is_active |-> FALSE] }

\* a table without any active ADMIN
UserTableNoAdmin ==
  { [id |-> 2, cognito_user_id |-> "s2", email |-> "e2", role |-> "OFFICER", is_active |-> TRUE],
    [id |-> 3, cognito_user_id |-> "s3", email |-> "e3", role |-> "ADMIN",   is_active |-> FALSE] }

\* a table with a second, later created active ADMIN
UserTableTwoAdmins ==
  UserTable \cup { [id |-> 4, cognito_user_id |-> "s4", email |-> "e4", role |-> "ADMIN", is_active |-> TRUE] }

\* User.created_at (server_default now()): the rows above are numbered in
\* the order of their creation
created_at(u) == u.id

NoUser == [id |-> 0, cognito_user_id |-> "none", email |-> "none", role |-> "none", is_active |-> FALSE]

\* path parameter and payload of a users endpoint; "none" = field not given
NoArg == [user_id |-> 0, email |-> "none", role |-> "none", is_active |-> "none"]

\* select(User).where(User.cognito_user_id == sub) ... .first(); the column is
\* unique and NOT NULL, so a missing subject ("none") matches no row
FindUserBySub(db, sub) ==
  IF \E u \in db : u.cognito_user_id = sub
  THEN CHOOSE u \in db : u.cognito_user_id = sub
  ELSE NoUser

\* select(User).where(User.role == "ADMIN", User.is_active.is_(True)).limit(1):
\* no ORDER BY, so any matching row may come back
ActiveAdmins(db) == { u \in db : u.role = "ADMIN" /\ u.is_active }

(* ------------------------------ key sets ------------------------------- *)
\* a JWK entry of the provider's document; kid "nokid" stands for an entry
\* without a "kid" member
Jwk(kid, mat) == [kid |-> kid, mat |-> mat]

\* bodies the JWKS endpoint may answer with ("keys" list of the document)
ProviderKeyLists ==
  { << >>,
    << Jwk("k1", "m1") >>,
    << Jwk("k2", "m2") >>,
    << Jwk("nokid", "m1") >> }

\* outcome of client.get + raise_for_status + resp.json()
Responses ==
  { [ok |-> FALSE, keys |-> << >>] } \cup { [ok |-> TRUE, keys |-> ks] : ks \in ProviderKeyLists }

\* {k["kid"]: k for k in keys}: a later entry with the same kid wins
JwksFromKeys(keys) ==
  { keys[i] : i \in { j \in DOMAIN keys :
                        \A l \in DOMAIN keys : l > j => keys[l].kid # keys[j].kid } }

\* the comprehension raises KeyError on an entry without "kid"
KeysWellFormed(keys) == \A i \in DOMAIN keys : keys[i].kid # "nokid"

\* the attempt (lines 57-60) reaches the assignment of line 61
FetchOk(resp) == resp.ok /\ KeysWellFormed(resp.keys)

Kids(jwks) == { k.kid : k \in jwks }

KeyOf(jwks, kid) == CHOOSE k \in jwks : k.kid = kid

\* if _jwks_cache and (now - _jwks_fetched_at) < settings.jwks_cache_ttl
CacheFresh(cache, fetched_at, now) ==
  cache # {} /\ (now - fetched_at) < JwksCacheTtl

\* lines 61-62: _jwks_cache = {...}; _jwks_fetched_at = now  (no await between)
StoreFetchedMerging(cache, fetched_at, keys, now) ==
  [cache |-> cache \cup JwksFromKeys(keys), fetched_at |-> now]

StoreFetched(cache, fetched_at, keys, now) ==
  [cache |-> JwksFromKeys(keys), fetched_at |-> now]

\* except-branch, lines 64-72: stale cache if available, else 503
FetchFailedResultAs401(cache) ==
  IF cache # {}
  THEN [raised |-> FALSE, jwks |-> cache, status |-> 200]
  ELSE [raised |-> TRUE, jwks |-> {}, status |-> 401]

FetchFailedResult(cache) ==
  IF cache # {}
  THEN [raised |-> FALSE, jwks |-> cache, status |-> 200]
  ELSE [raised |-> TRUE, jwks |-> {}, status |-> 503]

(* ------------------------------ tokens --------------------------------- *)
\* a bearer token: present = an Authorization header came with the request;
\* wf = the JWT header parses; kid = declared key id; sig = the key material
\* that signed it; expired = exp in the past; iss_ok = iss is the configured
\* issuer; use = token_use claim; sub = subject claim
Tok(wf, kid, sig, expired, iss_ok, use, sub) ==
  [present |-> TRUE, wf |-> wf, kid |-> kid, sig |-> sig, expired |-> expired,
   iss_ok |-> iss_ok, use |-> use, sub |-> sub]

NoToken ==
  [present |-> FALSE, wf |-> FALSE, kid |-> "none", sig |-> "none", expired |-> FALSE,
   iss_ok |-> FALSE, use |-> "none", sub |-> "none"]

\* access tokens signed by the provider's keys k1/m1 and k2/m2
Good1 == Tok(TRUE, "k1", "m1", FALSE, TRUE, "access", "s1")
Good3 == Tok(TRUE, "k1", "m1", FALSE, TRUE, "access", "s3")
Good9 == Tok(TRUE, "k1", "m1", FALSE, TRUE, "access", "s9")
\* a token for s1 that names k1 but was signed with someone else's key
Forged1 == Tok(TRUE, "k1", "mX", FALSE, TRUE, "access", "s1")
\* an access token of the OFFICER s2
Good2 == Tok(TRUE, "k1", "m1", FALSE, TRUE, "access", "s2")
\* an access token for s1 issued after the provider rotated to k2/m2
Rotated2 == Tok(TRUE, "k2", "m2", FALSE, TRUE, "access", "s1")

Failure(status, detail) == [ok |-> FALSE, status |-> status, detail |-> detail, sub |-> "none"]

\* jwk.construct(jwks[kid]) builds a key from the entry; key material "bad"
\* stands for an entry it cannot build one from (no "alg", wrong "kty", ...)
\* and raises JWKError on
KeyConstructs(k) == k.mat # "bad"

\* an exception that is not an HTTPException leaves the dependency and is
\* answered by the application's catch-all handler
Unhandled == Failure(500, "Internal server error")

\* _verify_cognito_jwt(token, jwks)
VerifyCognitoJwtUnsigned(tk, jwks) ==
  IF ~tk.wf THEN Failure(401, "Invalid token header")
  ELSE IF tk.kid \notin Kids(jwks) THEN Failure(401, "Token key not found")
  ELSE IF ~KeyConstructs(KeyOf(jwks, tk.kid)) THEN Unhandled
  ELSE IF tk.expired THEN Failure(401, "Token has expired")
  ELSE IF ~tk.iss_ok THEN Failure(401, "Invalid token issuer")
  ELSE IF tk.use # "access" THEN Failure(401, "Expected access token")
  ELSE [ok |-> TRUE, status |-> 200, detail |-> "", sub |-> tk.sub]

\* jwt.decode with the audience check left on
VerifyCognitoJwtCheckingAudience(tk, jwks) ==
  IF ~tk.wf THEN Failure(401, "Invalid token header")
  ELSE IF tk.kid \notin Kids(jwks) THEN Failure(401, "Token key not found")
  ELSE IF ~KeyConstructs(KeyOf(jwks, tk.kid)) THEN Unhandled
  ELSE Failure(401, "Token verification failed")

\* without the except clause for ExpiredSignatureError
VerifyCognitoJwtExpiryGeneric(tk, jwks) ==
  IF ~tk.wf THEN Failure(401, "Invalid token header")
  ELSE IF tk.kid \notin Kids(jwks) THEN Failure(401, "Token key not found")
  ELSE IF ~KeyConstructs(KeyOf(jwks, tk.kid)) THEN Unhandled
  ELSE IF tk.sig # KeyOf(jwks, tk.kid).mat \/ tk.expired
       THEN Failure(401, "Token verification failed")
  ELSE IF ~tk.iss_ok THEN Failure(401, "Invalid token issuer")
  ELSE IF tk.use # "access" THEN Failure(401, "Expected access token")
  ELSE [ok |-> TRUE, status |-> 200, detail |-> "", sub |-> tk.sub]

VerifyCognitoJwt(tk, jwks) ==
  IF ~tk.wf THEN Failure(401, "Invalid token header")
  ELSE IF tk.kid \notin Kids(jwks) THEN Failure(401, "Token key not found")
  ELSE IF ~KeyConstructs(KeyOf(jwks, tk.kid)) THEN Unhandled
  ELSE IF tk.sig # KeyOf(jwks, tk.kid).mat THEN Failure(401, "Token verification failed")
  ELSE IF tk.expired THEN Failure(401, "Token has expired")
  ELSE IF ~tk.iss_ok THEN Failure(401, "Invalid token issuer")
  ELSE IF tk.use # "access" THEN Failure(401, "Expected access token")
  ELSE [ok |-> TRUE, status |-> 200, detail |-> "", sub |-> tk.sub]

(* ------------------------------ dev override --------------------------- *)
\* ContextVar.set in the running task's context
CtxSetProcessWide(ctx, t, v) == [x \in DOMAIN ctx |-> v]

CtxSet(ctx, t, v) == [ctx EXCEPT ![t] = v]

\* _dev_cognito_sub.get(None)
CtxGet(ctx, t) == ctx[t]

(* ------------------------------ requests ------------------------------- *)
\* <<bearer token, X-Dev-User-ID header>> of the requests the model sends;
\* header "none" = absent
RequestInputs ==
  { <<NoToken, "none">>, <<Good1, "none">>, <<Good3, "none">>, <<Good9, "none">>,
    <<Forged1, "none">>,
    <<NoToken, "s2">>, <<NoToken, "s3">>, <<NoToken, "s9">>,
    <<Good1, "s3">> }

\* what the JWKS endpoint answers in the request-path specification
RequestResponses ==
  { [ok |-> FALSE, keys |-> << >>], [ok |-> TRUE, keys |-> << >>],
    [ok |-> TRUE, keys |-> << Jwk("k1", "m1") >>] }

\* arguments of _verify_cognito_jwt: every combination of header, key id,
\* signing key, expiry, issuer, token_use and subject ...
VerifyTokens ==
  { Tok(wf, kid, sig, ex, iss, use, sub) :
      wf \in BOOLEAN, kid \in {"k1", "k2", "k3"}, sig \in {"m1", "m2", "mX"},
      ex \in BOOLEAN, iss \in BOOLEAN, use \in {"access", "id"}, sub \in {"s1", "s9"} }

\* ... against key maps of no, one and two keys, and one holding an entry
\* no key can be constructed from
VerifyKeySets ==
  { {}, { Jwk("k1", "m1") }, { Jwk("k1", "m1"), Jwk("k2", "m2") },
    { Jwk("k1", "m1"), Jwk("k3", "bad") } }

\* requests sent to a server running with the dev bypass; "" is a header
\* sent with an empty value
DevInputs ==
  { <<NoToken, "none">>, <<NoToken, "">>, <<NoToken, "s2">>, <<NoToken, "s3">>,
    <<NoToken, "s4">>, <<NoToken, "s9">>, <<Good1, "none">>, <<Forged1, "s2">> }

\* requests sent to endpoints behind require_role(), require_role("ADMIN")
\* and require_role("OFFICER", "DISPATCHER"): <<token, header, roles>>
GuardedInputs ==
  { <<NoToken, "none", {}>>, <<NoToken, "none", {"ADMIN"}>>,
    <<Good1, "none", {"ADMIN"}>>, <<Good1, "none", {"OFFICER", "DISPATCHER"}>>,
    <<Good2, "none", {}>>, <<Good2, "none", {"ADMIN"}>>,
    <<Good2, "none", {"OFFICER", "DISPATCHER"}>>,
    <<Good3, "none", {"ADMIN"}>>,
    <<NoToken, "s2", {}>>, <<NoToken, "s2", {"ADMIN"}>> }

\* the same requests sent to endpoints that depend on get_current_user alone
UnguardedInputs == { <<NoToken, "none">>, <<Good1, "none">>, <<Good3, "none">> }

\* documents of the JWKS endpoint with a usable key and with an entry no key
\* can be constructed from, and a failed GET
KeyContentResponses ==
  { [ok |-> FALSE, keys |-> << >>],
    [ok |-> TRUE, keys |-> << Jwk("k1", "m1") >>],
    [ok |-> TRUE, keys |-> << Jwk("k1", "bad") >>] }

\* requests to the users endpoints: <<token, endpoint, argument>>.  The
\* ADMIN s1 demotes and deactivates itself; the OFFICER s2 tries every endpoint
UserOpInputs ==
  { <<Good1, "update", [NoArg EXCEPT !.user_id = 1, !.role = "OFFICER"]>>,
    <<Good1, "update", [NoArg EXCEPT !.user_id = 1, !.is_active = "false"]>>,
    <<Good2, "me", NoArg>>,
    <<Good2, "create", [NoArg EXCEPT !.email = "e5", !.role = "ADMIN"]>>,
    <<Good2, "list", NoArg>>,
    <<Good2, "get", [NoArg EXCEPT !.user_id = 1]>>,
    <<Good2, "update", [NoArg EXCEPT !.user_id = 2, !.role = "ADMIN"]>>,
    <<Good2, "reset", [NoArg EXCEPT !.user_id = 1]>> }

\* create_user payloads: the email of the existing user s2 and a new email
CreateInputs ==
  { [NoArg EXCEPT !.email = "e2", !.role = "OFFICER"],
    [NoArg EXCEPT !.email = "e5", !.role = "OFFICER"] }

\* requests sent while the provider rotates its signing key
RotationInputs == { <<Good1, "none">>, <<Rotated2, "none">> }

\* requests to the reference endpoints: <<token, endpoint>>
ReferenceInputs ==
  { <<tok, key>> : tok \in {NoToken, Good1, Good2}, key \in {"service_types", "sla_config"} }

(* ------------------------------ reference cache ------------------------ *)
\* _CACHE_TTL (300 seconds), in clock ticks; shorter than the key-set TTL
RefCacheTtl == 1

\* the cached endpoints modelled: one open to every user, one for ADMINs
RefKeys == {"service_types", "sla_config"}

\* what the query of each endpoint reads from its table
RefData == [service_types |-> "service_type rows", sla_config |-> "sla_config rows"]

NoEntry == [present |-> FALSE, ts |-> 0, value |-> "none"]

EmptyRefCache == [k \in RefKeys |-> NoEntry]

\* _cache_get: the value if the entry is younger than the TTL; an older
\* entry is deleted and None returned
CacheGet(cache, key, now) ==
  LET e == cache[key] IN
  IF e.present /\ now - e.ts < RefCacheTtl THEN [value |-> e.value, cache |-> cache]
  ELSE [value |-> "none", cache |-> [cache EXCEPT ![key] = NoEntry]]

\* _cache_set
CacheSet(cache, key, now, value) ==
  [cache EXCEPT ![key] = [present |-> TRUE, ts |-> now, value |-> value]]

(* ------------------------------ state ---------------------------------- *)
VARIABLES
  settings,              \* the process's Settings (get_settings is lru_cached)
  middleware_installed,  \* create_app installed dev_auth_middleware
  db,                    \* the users table
  clock,                 \* time.monotonic()
  jwks_cache,            \* security._jwks_cache
  jwks_fetched_at,       \* security._jwks_fetched_at
  ctx,                   \* value of _dev_cognito_sub per context (0 = base context)
  task,                  \* the live tasks: inputs, position, locals, outcome
  last_stored,           \* history: <<key set, now>> of the latest fetch that reached line 61
  last_ok_now,           \* history: latest start time of a fetch that succeeded, -1 if none
  ref_cache              \* reference._cache: key -> (timestamp, value), or no entry

vars == <<settings, middleware_installed, db, clock, jwks_cache, jwks_fetched_at, ctx, task, last_stored, last_ok_now, ref_cache>>

\* kind: "request" (get_current_user behind the middleware) or "jwks" (a bare
\* _get_jwks call); now, own, stale: locals of _get_jwks, dead once it returns
\* (own = the key map it built at line 61, stale = it found a cached key set
\* of age >= TTL, kept when a failed fetch hands it that set); nfetch: GETs it
\* started; jwks: what _get_jwks returned;
\* guarded, roles: the endpoint depends on require_role(*roles) instead of
\* get_current_user; role: the role of the user get_current_user returned;
\* named: the roles listed in the detail of a 403; op, arg: the endpoint the
\* request is for and its path parameter and payload; body: the reference
\* data the response carries
IdleTask ==
  [kind |-> "idle", pc |-> "idle", token |-> NoToken, header |-> "none",
   now |-> 0, nfetch |-> 0, own |-> {}, stale |-> FALSE,
   jwks |-> {}, gotJwks |-> FALSE,
   ctxRead |-> FALSE, readSub |-> "none", sub |-> "none",
   status |-> 0, detail |-> "", uid |-> 0,
   guarded |-> FALSE, roles |-> {}, role |-> "none", named |-> {},
   op |-> "none", arg |-> NoArg, body |-> "none"]

\* an HTTPException raised inside a dependency ends the request with its
\* status and detail; a guard depending on the failed dependency never runs
RaiseForbiddenWhenGuarded(tk, status, detail) ==
  [tk EXCEPT !.pc = "done", !.status = IF tk.guarded THEN 403 ELSE status,
            !.detail = IF tk.guarded THEN "Requires one of roles" ELSE detail,
            !.now = 0, !.own = {}, !.stale = FALSE]

Raise(tk, status, detail) ==
  [tk EXCEPT !.pc = "done", !.status = status, !.detail = detail,
            !.now = 0, !.own = {}, !.stale = FALSE]

\* get_current_user returns the user: to the endpoint, or to _check_role
Return(tk, u) ==
  IF tk.guarded
  THEN [tk EXCEPT !.pc = "guard", !.uid = u.id, !.role = u.role]
  ELSE IF tk.op # "none"
  THEN [tk EXCEPT !.pc = "handler", !.uid = u.id, !.role = u.role]
  ELSE [tk EXCEPT !.pc = "done", !.status = 200, !.uid = u.id, !.role = u.role]

InitWith(cfgs) ==
  /\ settings \in cfgs
  /\ middleware_installed = auth_disabled(settings)
  /\ db \in (IF auth_disabled(settings) THEN {UserTable, UserTableNoAdmin} ELSE {UserTable})
  /\ clock = 0
  /\ jwks_cache = {}
  /\ jwks_fetched_at = 0
  /\ ctx = [x \in 0..MaxTasks |-> "none"]
  /\ task = [t \in Tasks |-> IdleTask]
  /\ last_stored = << >>
  /\ last_ok_now = -1
  /\ ref_cache = EmptyRefCache

Init == InitWith(Configs)

(* ------------------------------ _get_jwks / get_current_user ----------- *)
\* what the caller of _get_jwks does with the returned key set: a bare call
\* is finished; get_current_user verifies the token (lines 174-175) and goes on
\* to the user lookup, which is its next await
AfterJwks(tk, jwks) ==
  LET r == [tk EXCEPT !.jwks = jwks, !.gotJwks = TRUE,
                      !.now = 0, !.own = {}, !.stale = FALSE] IN
  IF tk.kind = "jwks" THEN [r EXCEPT !.pc = "done", !.status = 200]
  ELSE LET v == VerifyCognitoJwt(tk.token, jwks) IN
       IF v.ok THEN [r EXCEPT !.pc = "lookup", !.sub = v.sub]
       ELSE Raise(r, v.status, v.detail)

\* _get_jwks from its first line to its first await (lines 44-58)
JwksEntry(tk) ==
  LET now == clock IN
  IF CacheFresh(jwks_cache, jwks_fetched_at, now) THEN AfterJwks(tk, jwks_cache)
  ELSE IF ~cognito_configured(settings) THEN AfterJwks(tk, {})
  ELSE [tk EXCEPT !.now = now, !.pc = "fetching", !.nfetch = @ + 1,
                  !.stale = jwks_cache # {} /\ now - jwks_fetched_at >= JwksCacheTtl]

\* time passes
Tick ==
  /\ clock < MaxClock
  /\ clock' = clock + 1
  /\ UNCHANGED <<settings, middleware_installed, db, jwks_cache, jwks_fetched_at, ctx, task, last_stored, last_ok_now, ref_cache>>

\* a request arrives: a new task with a copy of the base context; the dev
\* middleware, when installed, stores the X-Dev-User-ID header and awaits call_next
StartRequest(t, tok, hdr) ==
  /\ task[t].pc = "idle"
  /\ LET fresh == [ctx EXCEPT ![t] = ctx[0]] IN
     ctx' = IF middleware_installed THEN CtxSet(fresh, t, hdr) ELSE fresh
  /\ task' = [task EXCEPT ![t] = [IdleTask EXCEPT !.kind = "request", !.pc = "dep",
                                                  !.token = tok, !.header = hdr]]
  /\ UNCHANGED <<settings, middleware_installed, db, clock, jwks_cache, jwks_fetched_at, last_stored, last_ok_now, ref_cache>>

\* a request arrives at an endpoint that depends on require_role(*roles)
StartGuarded(t, tok, hdr, roles) ==
  /\ task[t].pc = "idle"
  /\ LET fresh == [ctx EXCEPT ![t] = ctx[0]] IN
     ctx' = IF middleware_installed THEN CtxSet(fresh, t, hdr) ELSE fresh
  /\ task' = [task EXCEPT ![t] = [IdleTask EXCEPT !.kind = "request", !.pc = "dep",
                                                  !.token = tok, !.header = hdr,
                                                  !.guarded = TRUE, !.roles = roles]]
  /\ UNCHANGED <<settings, middleware_installed, db, clock, jwks_cache, jwks_fetched_at, last_stored, last_ok_now, ref_cache>>

\* get_current_user from its first line to its first await
GetCurrentUserConfigFirst(t) ==
  /\ task[t].pc = "dep"
  /\ task' = [task EXCEPT ![t] =
       IF auth_disabled(settings)
       THEN [@ EXCEPT !.pc = "dev_lookup", !.ctxRead = TRUE, !.readSub = CtxGet(ctx, t)]
       ELSE IF ~cognito_configured(settings)
            THEN Raise(@, 503, "Authentication is not configured on this server")
       ELSE IF ~@.token.present THEN Raise(@, 401, "Not authenticated")
       ELSE JwksEntry(@)]
  /\ UNCHANGED <<settings, middleware_installed, db, clock, jwks_cache, jwks_fetched_at, ctx, last_stored, last_ok_now, ref_cache>>

GetCurrentUserTokenFirst(t) ==
  /\ task[t].pc = "dep"
  /\ task' = [task EXCEPT ![t] =
       IF ~@.token.present THEN Raise(@, 401, "Not authenticated")
       ELSE IF auth_disabled(settings)
       THEN [@ EXCEPT !.pc = "dev_lookup", !.ctxRead = TRUE, !.readSub = CtxGet(ctx, t)]
       ELSE IF ~cognito_configured(settings)
            THEN Raise(@, 503, "Authentication is not configured on this server")
       ELSE JwksEntry(@)]
  /\ UNCHANGED <<settings, middleware_installed, db, clock, jwks_cache, jwks_fetched_at, ctx, last_stored, last_ok_now, ref_cache>>

GetCurrentUser(t) ==
  /\ task[t].pc = "dep"
  /\ task' = [task EXCEPT ![t] =
       IF auth_disabled(settings)
       THEN [@ EXCEPT !.pc = "dev_lookup", !.ctxRead = TRUE, !.readSub = CtxGet(ctx, t)]
       ELSE IF ~@.token.present THEN Raise(@, 401, "Not authenticated")
       ELSE IF ~cognito_configured(settings)
            THEN Raise(@, 503, "Authentication is not configured on this server")
       ELSE JwksEntry(@)]
  /\ UNCHANGED <<settings, middleware_installed, db, clock, jwks_cache, jwks_fetched_at, ctx, last_stored, last_ok_now, ref_cache>>

\* _get_jwks called on its own (as a unit test or another caller would)
CallGetJwks(t) ==
  /\ task[t].pc = "idle"
  /\ task' = [task EXCEPT ![t] = JwksEntry([IdleTask EXCEPT !.kind = "jwks"])]
  /\ UNCHANGED <<settings, middleware_installed, db, clock, jwks_cache, jwks_fetched_at, ctx, last_stored, last_ok_now, ref_cache>>

\* the awaited GET completes with a usable document: lines 59-63, then the
\* async exit of the `async with` block (closing the client) is awaited;
\* the local now is not used after line 62 and is dropped here
FetchSucceed(t, resp) ==
  /\ task[t].pc = "fetching"
  /\ FetchOk(resp)
  /\ LET st == StoreFetched(jwks_cache, jwks_fetched_at, resp.keys, task[t].now) IN
     /\ jwks_cache' = st.cache
     /\ jwks_fetched_at' = st.fetched_at
  /\ last_stored' = <<JwksFromKeys(resp.keys), task[t].now>>
  /\ last_ok_now' = IF task[t].now > last_ok_now THEN task[t].now ELSE last_ok_now
  /\ task' = [task EXCEPT ![t] = [@ EXCEPT !.pc = "closing", !.own = JwksFromKeys(resp.keys),
                                           !.now = 0]]
  /\ UNCHANGED <<settings, middleware_installed, db, clock, ctx, ref_cache>>

\* the attempt raises (network error, HTTP status, bad document): lines 64-72;
\* a call that entered on an expired key set and is handed that set back
\* stays marked stale
FetchFailRenewing(t, resp) ==
  /\ task[t].pc = "fetching"
  /\ ~FetchOk(resp)
  /\ LET r == FetchFailedResult(jwks_cache) IN
     /\ task' = [task EXCEPT ![t] =
          IF r.raised THEN Raise(@, r.status, "Authentication service unavailable")
          ELSE [AfterJwks(@, r.jwks) EXCEPT !.stale = task[t].stale]]
     /\ jwks_fetched_at' = IF r.raised THEN jwks_fetched_at ELSE task[t].now
  /\ UNCHANGED <<settings, middleware_installed, db, clock, jwks_cache, ctx, last_stored, last_ok_now, ref_cache>>

FetchFail(t, resp) ==
  /\ task[t].pc = "fetching"
  /\ ~FetchOk(resp)
  /\ LET r == FetchFailedResult(jwks_cache) IN
     task' = [task EXCEPT ![t] =
       IF r.raised THEN Raise(@, r.status, "Authentication service unavailable")
       ELSE [AfterJwks(@, r.jwks) EXCEPT !.stale = task[t].stale]]
  /\ UNCHANGED <<settings, middleware_installed, db, clock, jwks_cache, jwks_fetched_at, ctx, last_stored, last_ok_now, ref_cache>>

\* the task is cancelled while suspended at an await (client disconnect,
\* server timeout): CancelledError is raised there; it is not an Exception, so
\* the handler of lines 64-72 does not run and no later line of the call runs
CancelStampingCache(t) ==
  /\ task[t].pc \in {"fetching", "closing", "lookup", "dev_lookup"}
  /\ jwks_fetched_at' = IF task[t].pc = "fetching" THEN task[t].now ELSE jwks_fetched_at
  /\ task' = [task EXCEPT ![t] =
       [@ EXCEPT !.pc = "done", !.detail = "cancelled", !.now = 0, !.stale = FALSE]]
  /\ UNCHANGED <<settings, middleware_installed, db, clock, jwks_cache, ctx, last_stored, last_ok_now, ref_cache>>

Cancel(t) ==
  /\ task[t].pc \in {"fetching", "closing", "lookup", "dev_lookup"}
  /\ task' = [task EXCEPT ![t] =
       [@ EXCEPT !.pc = "done", !.detail = "cancelled", !.now = 0, !.stale = FALSE]]
  /\ UNCHANGED <<settings, middleware_installed, db, clock, jwks_cache, jwks_fetched_at, ctx, last_stored, last_ok_now, ref_cache>>

\* the client is closed; line 74 returns the module-level _jwks_cache
CloseClient(t) ==
  /\ task[t].pc = "closing"
  /\ task' = [task EXCEPT ![t] = AfterJwks(@, jwks_cache)]
  /\ UNCHANGED <<settings, middleware_installed, db, clock, jwks_cache, jwks_fetched_at, ctx, last_stored, last_ok_now, ref_cache>>

\* production lookup, lines 177-186
LookupPurgingInactive(t) ==
  /\ task[t].pc = "lookup"
  /\ LET user == FindUserBySub(db, task[t].sub) IN
     /\ task' = [task EXCEPT ![t] =
          IF user = NoUser \/ ~user.is_active
          THEN Raise(@, 401, "User not found or inactive")
          ELSE Return(@, user)]
     /\ db' = IF user # NoUser /\ ~user.is_active THEN db \ {user} ELSE db
  /\ UNCHANGED <<settings, middleware_installed, clock, jwks_cache, jwks_fetched_at, ctx, last_stored, last_ok_now, ref_cache>>

LookupFromSnapshot(t) ==
  /\ task[t].pc = "lookup"
  /\ LET user == FindUserBySub(UserTable, task[t].sub) IN
     task' = [task EXCEPT ![t] =
       IF user = NoUser \/ ~user.is_active
       THEN Raise(@, 401, "User not found or inactive")
       ELSE Return(@, user)]
  /\ UNCHANGED <<settings, middleware_installed, db, clock, jwks_cache, jwks_fetched_at, ctx, last_stored, last_ok_now, ref_cache>>

Lookup(t) ==
  /\ task[t].pc = "lookup"
  /\ LET user == FindUserBySub(db, task[t].sub) IN
     task' = [task EXCEPT ![t] =
       IF user = NoUser \/ ~user.is_active
       THEN Raise(@, 401, "User not found or inactive")
       ELSE Return(@, user)]
  /\ UNCHANGED <<settings, middleware_installed, db, clock, jwks_cache, jwks_fetched_at, ctx, last_stored, last_ok_now, ref_cache>>

\* development lookup, lines 139-155; "none" and "" are both falsy
DevLookupFallbackOnly(t) ==
  /\ task[t].pc = "dev_lookup"
  /\ \E user \in (IF ActiveAdmins(db) = {} THEN {NoUser} ELSE ActiveAdmins(db)) :
       task' = [task EXCEPT ![t] =
         IF user # NoUser THEN Return(@, user)
         ELSE Raise(@, 401, "Dev auth: no matching user found")]
  /\ UNCHANGED <<settings, middleware_installed, db, clock, jwks_cache, jwks_fetched_at, ctx, last_stored, last_ok_now, ref_cache>>

DevLookup(t) ==
  /\ task[t].pc = "dev_lookup"
  /\ \E user \in (IF task[t].readSub \notin {"none", ""}
                  THEN {FindUserBySub(db, task[t].readSub)}
                  ELSE IF ActiveAdmins(db) = {} THEN {NoUser} ELSE ActiveAdmins(db)) :
       task' = [task EXCEPT ![t] =
         IF user # NoUser THEN Return(@, user)
         ELSE Raise(@, 401, "Dev auth: no matching user found")]
  /\ UNCHANGED <<settings, middleware_installed, db, clock, jwks_cache, jwks_fetched_at, ctx, last_stored, last_ok_now, ref_cache>>

\* require_role(*roles)._check_role(current_user), lines 24-30
CheckRoleEmptyAdmitsNone(t) ==
  /\ task[t].pc = "guard"
  /\ task' = [task EXCEPT ![t] =
       IF @.role \notin @.roles
       THEN [Raise(@, 403, "Requires one of roles") EXCEPT !.named = task[t].roles]
       ELSE IF @.op # "none" THEN [@ EXCEPT !.pc = "handler"]
       ELSE [@ EXCEPT !.pc = "done", !.status = 200]]
  /\ UNCHANGED <<settings, middleware_installed, db, clock, jwks_cache, jwks_fetched_at, ctx, last_stored, last_ok_now, ref_cache>>

CheckRole(t) ==
  /\ task[t].pc = "guard"
  /\ task' = [task EXCEPT ![t] =
       IF @.roles # {} /\ @.role \notin @.roles
       THEN [Raise(@, 403, "Requires one of roles") EXCEPT !.named = task[t].roles]
       ELSE IF @.op # "none" THEN [@ EXCEPT !.pc = "handler"]
       ELSE [@ EXCEPT !.pc = "done", !.status = 200]]
  /\ UNCHANGED <<settings, middleware_installed, db, clock, jwks_cache, jwks_fetched_at, ctx, last_stored, last_ok_now, ref_cache>>

(* ------------------------------ api/v1/users.py ------------------------ *)
\* the dependency each users endpoint declares: get_me depends on
\* get_current_user, the others on require_role("ADMIN")
EndpointGuardedExceptUpdate(op) == op \in {"create", "list", "get", "reset"}

EndpointGuarded(op) == op \in {"create", "list", "get", "update", "reset"}

\* a request arrives at a users endpoint
StartEndpoint(t, tok, hdr, op, arg) ==
  /\ task[t].pc = "idle"
  /\ LET fresh == [ctx EXCEPT ![t] = ctx[0]] IN
     ctx' = IF middleware_installed THEN CtxSet(fresh, t, hdr) ELSE fresh
  /\ task' = [task EXCEPT ![t] =
       [IdleTask EXCEPT !.kind = "request", !.pc = "dep", !.token = tok, !.header = hdr,
                        !.op = op, !.arg = arg, !.guarded = EndpointGuarded(op),
                        !.roles = IF EndpointGuarded(op) THEN {"ADMIN"} ELSE {}]]
  /\ UNCHANGED <<settings, middleware_installed, db, clock, jwks_cache, jwks_fetched_at, last_stored, last_ok_now, ref_cache>>

\* select(User).where(User.id == user_id) ... .first()
FindUserById(users, id) ==
  IF \E u \in users : u.id = id THEN CHOOSE u \in users : u.id = id ELSE NoUser

\* the primary key and the subject of a row about to be inserted (uuid4 in
\* the code): values no existing row has
NewId(users) == 1 + (CHOOSE m \in { u.id : u \in users } : \A u \in users : u.id <= m)

NewSub(users) == <<"s1", "s2", "s3", "s4", "s5", "s6", "s7", "s8", "s9">>[NewId(users)]

\* the endpoints that only read: get_me (line 123), list_users (176-188),
\* get_user (198-202), reset_password (244-260) with the provider's answer
ReadEndpoint(t) ==
  /\ task[t].pc = "handler" /\ task[t].op \in {"me", "list", "get", "reset"}
  /\ LET user == FindUserById(db, task[t].arg.user_id) IN
     \E provider_ok \in BOOLEAN :
       task' = [task EXCEPT ![t] =
         IF @.op \in {"me", "list"} THEN [@ EXCEPT !.pc = "done", !.status = 200]
         ELSE IF user = NoUser THEN Raise(@, 404, "User not found")
         ELSE IF @.op = "get" THEN [@ EXCEPT !.pc = "done", !.status = 200]
         ELSE IF cognito_configured(settings) /\ ~provider_ok
              THEN Raise(@, 502, "Failed to trigger password reset in authentication system")
         ELSE [@ EXCEPT !.pc = "done", !.status = 204]]
  /\ UNCHANGED <<settings, middleware_installed, db, clock, jwks_cache, jwks_fetched_at, ctx, last_stored, last_ok_now, ref_cache>>

\* create_user, lines 134-155: the duplicate check, then the provider's
\* AdminCreateUser when configured, then db.add; the commit is awaited
CreateUserCheck(t) ==
  /\ task[t].pc = "handler" /\ task[t].op = "create"
  /\ \E provider \in (IF cognito_configured(settings) THEN {"created", "exists", "error"}
                       ELSE {"created"}) :
       task' = [task EXCEPT ![t] =
         IF \E u \in db : u.email = @.arg.email
         THEN Raise(@, 409, "A user with this email already exists")
         ELSE IF provider = "exists"
         THEN Raise(@, 409, "A user with this email already exists in Cognito")
         ELSE IF provider = "error"
         THEN Raise(@, 502, "Failed to create user in authentication system")
         ELSE [@ EXCEPT !.pc = "create_commit"]]
  /\ UNCHANGED <<settings, middleware_installed, db, clock, jwks_cache, jwks_fetched_at, ctx, last_stored, last_ok_now, ref_cache>>

\* create_user, lines 156-162: the INSERT is committed
CreateUserCommit(t) ==
  /\ task[t].pc = "create_commit"
  /\ Cardinality(db) < MaxUsers
  /\ db' = db \cup { [id |-> NewId(db), cognito_user_id |-> NewSub(db),
                        email |-> task[t].arg.email, role |-> task[t].arg.role,
                        is_active |-> TRUE] }
  /\ task' = [task EXCEPT ![t] = [@ EXCEPT !.pc = "done", !.status = 201]]
  /\ UNCHANGED <<settings, middleware_installed, clock, jwks_cache, jwks_fetched_at, ctx, last_stored, last_ok_now, ref_cache>>

\* update_user, lines 213-231: the row is loaded and the payload's fields
\* are set on it; the commit is awaited
UpdateUserLoad(t) ==
  /\ task[t].pc = "handler" /\ task[t].op = "update"
  /\ task' = [task EXCEPT ![t] =
       IF FindUserById(db, @.arg.user_id) = NoUser THEN Raise(@, 404, "User not found")
       ELSE [@ EXCEPT !.pc = "update_commit"]]
  /\ UNCHANGED <<settings, middleware_installed, db, clock, jwks_cache, jwks_fetched_at, ctx, last_stored, last_ok_now, ref_cache>>

\* update_user, lines 232-234: the UPDATE of the fields that were set
UpdateUserCommit(t) ==
  /\ task[t].pc = "update_commit"
  /\ LET a == task[t].arg
         Updated(u) ==
           [u EXCEPT !.role = IF a.role # "none" THEN a.role ELSE @,
                     !.is_active = IF a.is_active # "none" THEN a.is_active = "true" ELSE @] IN
     db' = { IF u.id = a.user_id THEN Updated(u) ELSE u : u \in db }
  /\ task' = [task EXCEPT ![t] = [@ EXCEPT !.pc = "done", !.status = 200]]
  /\ UNCHANGED <<settings, middleware_installed, clock, jwks_cache, jwks_fetched_at, ctx, last_stored, last_ok_now, ref_cache>>

(* ------------------------------ reference endpoints ------------------- *)
\* get_sla_config depends on require_role("ADMIN"), the other reference
\* endpoints on get_current_user
ReferenceGuardedNever(key) == FALSE

ReferenceGuarded(key) == key = "sla_config"

\* a request arrives at a reference endpoint
StartReference(t, tok, hdr, key) ==
  /\ task[t].pc = "idle"
  /\ LET fresh == [ctx EXCEPT ![t] = ctx[0]] IN
     ctx' = IF middleware_installed THEN CtxSet(fresh, t, hdr) ELSE fresh
  /\ task' = [task EXCEPT ![t] =
       [IdleTask EXCEPT !.kind = "request", !.pc = "dep", !.token = tok, !.header = hdr,
                        !.op = key, !.guarded = ReferenceGuarded(key),
                        !.roles = IF ReferenceGuarded(key) THEN {"ADMIN"} ELSE {}]]
  /\ UNCHANGED <<settings, middleware_installed, db, clock, jwks_cache, jwks_fetched_at, last_stored, last_ok_now, ref_cache>>

\* the handler body up to its first await: a cached value is returned, else
\* the query is awaited
ReferenceHandler(t) ==
  /\ task[t].pc = "handler" /\ task[t].op \in RefKeys
  /\ LET cached == CacheGet(ref_cache, task[t].op, clock) IN
     /\ ref_cache' = cached.cache
     /\ task' = [task EXCEPT ![t] =
          IF cached.value # "none"
          THEN [@ EXCEPT !.pc = "done", !.status = 200, !.body = cached.value]
          ELSE [@ EXCEPT !.pc = "ref_query"]]
  /\ UNCHANGED <<settings, middleware_installed, db, clock, jwks_cache, jwks_fetched_at, ctx, last_stored, last_ok_now>>

\* the query returns: the rows are cached and returned
ReferenceStore(t) ==
  /\ task[t].pc = "ref_query"
  /\ LET data == RefData[task[t].op] IN
     /\ ref_cache' = CacheSet(ref_cache, task[t].op, clock, data)
     /\ task' = [task EXCEPT ![t] = [@ EXCEPT !.pc = "done", !.status = 200, !.body = data]]
  /\ UNCHANGED <<settings, middleware_installed, db, clock, jwks_cache, jwks_fetched_at, ctx, last_stored, last_ok_now>>

\* the response is sent and the task, with its context, is gone
Finish(t) ==
  /\ task[t].pc = "done"
  /\ task' = [task EXCEPT ![t] = IdleTask]
  /\ ctx' = [ctx EXCEPT ![t] = ctx[0]]
  /\ UNCHANGED <<settings, middleware_installed, db, clock, jwks_cache, jwks_fetched_at, last_stored, last_ok_now, ref_cache>>

\* the request path at one instant of the clock, under every configuration
Next ==
  \/ \E t \in Tasks, in \in RequestInputs : StartRequest(t, in[1], in[2])
  \/ \E t \in Tasks : GetCurrentUser(t)
  \/ \E t \in Tasks, resp \in RequestResponses : FetchSucceed(t, resp)
  \/ \E t \in Tasks, resp \in RequestResponses : FetchFail(t, resp)
  \/ \E t \in Tasks : CloseClient(t)
  \/ \E t \in Tasks : Lookup(t)
  \/ \E t \in Tasks : DevLookup(t)
  \/ \E t \in Tasks : Finish(t)

Spec == Init /\ [][Next]_vars

\* the signing-key cache over time under concurrent _get_jwks calls, in
\* production, provider configured or not
CacheConfigs == { c \in Configs : c.environment = "production" /\ ~c.dev_skip_auth }

InitCache == InitWith(CacheConfigs)

NextCache ==
  \/ Tick
  \/ \E t \in Tasks : CallGetJwks(t)
  \/ \E t \in Tasks, resp \in Responses : FetchSucceed(t, resp)
  \/ \E t \in Tasks, resp \in Responses : FetchFail(t, resp)
  \/ \E t \in Tasks : CloseClient(t)
  \/ \E t \in Tasks : Finish(t)

SpecCache == InitCache /\ [][NextCache]_vars

\* the same calls, any of which may be cancelled while it is suspended
NextCancel ==
  \/ NextCache
  \/ \E t \in Tasks : Cancel(t)

SpecCancel == InitCache /\ [][NextCancel]_vars

\* production requests over time while the provider rotates from k1 to k2
RotationConfigs == { c \in CacheConfigs : cognito_configured(c) }

InitRotation == InitWith(RotationConfigs)

NextRotation ==
  \/ Tick
  \/ \E t \in Tasks, in \in RotationInputs : StartRequest(t, in[1], in[2])
  \/ \E t \in Tasks : GetCurrentUser(t)
  \/ \E t \in Tasks, resp \in Responses : FetchSucceed(t, resp)
  \/ \E t \in Tasks, resp \in Responses : FetchFail(t, resp)
  \/ \E t \in Tasks : CloseClient(t)
  \/ \E t \in Tasks : Lookup(t)
  \/ \E t \in Tasks : Finish(t)

SpecRotation == InitRotation /\ [][NextRotation]_vars

\* the dev bypass on its own, over tables with no, one and two active ADMINs
DevConfigs == { c \in Configs : auth_disabled(c) }

DevTables == { UserTable, UserTableNoAdmin, UserTableTwoAdmins }

InitDev ==
  /\ settings \in DevConfigs
  /\ middleware_installed = auth_disabled(settings)
  /\ db \in DevTables
  /\ clock = 0
  /\ jwks_cache = {}
  /\ jwks_fetched_at = 0
  /\ ctx = [x \in 0..MaxTasks |-> "none"]
  /\ task = [t \in Tasks |-> IdleTask]
  /\ last_stored = << >>
  /\ last_ok_now = -1
  /\ ref_cache = EmptyRefCache

NextDev ==
  \/ \E t \in Tasks, in \in DevInputs : StartRequest(t, in[1], in[2])
  \/ \E t \in Tasks : GetCurrentUser(t)
  \/ \E t \in Tasks : DevLookup(t)
  \/ \E t \in Tasks : Finish(t)

SpecDev == InitDev /\ [][NextDev]_vars

\* guarded and unguarded endpoints: production with and without a
\* configured provider, and the dev bypass
GuardConfigs ==
  { c \in Configs :
      /\ c.environment \in {"production", "development"}
      /\ c.dev_skip_auth = (c.environment = "development")
      /\ (c.cognito_user_pool_id = "") = (c.cognito_app_client_id = "")
      /\ (c.environment = "development") => (c.cognito_user_pool_id = "") }

InitGuard == InitWith(GuardConfigs)

NextGuard ==
  \/ \E t \in Tasks, in \in UnguardedInputs : StartRequest(t, in[1], in[2])
  \/ \E t \in Tasks, in \in GuardedInputs : StartGuarded(t, in[1], in[2], in[3])
  \/ \E t \in Tasks : GetCurrentUser(t)
  \/ \E t \in Tasks, resp \in RequestResponses : FetchSucceed(t, resp)
  \/ \E t \in Tasks, resp \in RequestResponses : FetchFail(t, resp)
  \/ \E t \in Tasks : CloseClient(t)
  \/ \E t \in Tasks : Lookup(t)
  \/ \E t \in Tasks : DevLookup(t)
  \/ \E t \in Tasks : CheckRole(t)
  \/ \E t \in Tasks : Finish(t)

SpecGuard == InitGuard /\ [][NextGuard]_vars

\* production requests against whatever key entries the endpoint publishes
NextKeyContent ==
  \/ \E t \in Tasks, in \in UnguardedInputs : StartRequest(t, in[1], in[2])
  \/ \E t \in Tasks : GetCurrentUser(t)
  \/ \E t \in Tasks, resp \in KeyContentResponses : FetchSucceed(t, resp)
  \/ \E t \in Tasks, resp \in KeyContentResponses : FetchFail(t, resp)
  \/ \E t \in Tasks : CloseClient(t)
  \/ \E t \in Tasks : Lookup(t)
  \/ \E t \in Tasks : Finish(t)

SpecKeyContent == InitRotation /\ [][NextKeyContent]_vars

\* the users endpoints in production: the key set {k1} was fetched at time 0
\* and stays within its TTL
InitUsers ==
  /\ settings \in RotationConfigs
  /\ middleware_installed = auth_disabled(settings)
  /\ db = UserTable
  /\ clock = 0
  /\ jwks_cache = JwksFromKeys(<< Jwk("k1", "m1") >>)
  /\ jwks_fetched_at = 0
  /\ ctx = [x \in 0..MaxTasks |-> "none"]
  /\ task = [t \in Tasks |-> IdleTask]
  /\ last_stored = <<JwksFromKeys(<< Jwk("k1", "m1") >>), 0>>
  /\ last_ok_now = 0
  /\ ref_cache = EmptyRefCache

NextUsers ==
  \/ \E t \in Tasks, in \in UserOpInputs : StartEndpoint(t, in[1], "none", in[2], in[3])
  \/ \E t \in Tasks : GetCurrentUser(t)
  \/ \E t \in Tasks : Lookup(t)
  \/ \E t \in Tasks : CheckRole(t)
  \/ \E t \in Tasks : ReadEndpoint(t)
  \/ \E t \in Tasks : UpdateUserLoad(t)
  \/ \E t \in Tasks : UpdateUserCommit(t)
  \/ \E t \in Tasks : Finish(t)

SpecUsers == InitUsers /\ [][NextUsers]_vars

\* time passes while the key set fetched at time 0 is within its TTL
TickWithinKeyTtl ==
  /\ CacheFresh(jwks_cache, jwks_fetched_at, clock + 1)
  /\ Tick

\* the reference endpoints in production while the signing keys are fresh
\* and reference entries expire: requests without token, of the ADMIN s1 and
\* of the OFFICER s2
NextReference ==
  \/ TickWithinKeyTtl
  \/ \E t \in Tasks, in \in ReferenceInputs : StartReference(t, in[1], "none", in[2])
  \/ \E t \in Tasks : GetCurrentUser(t)
  \/ \E t \in Tasks : Lookup(t)
  \/ \E t \in Tasks : CheckRole(t)
  \/ \E t \in Tasks : ReferenceHandler(t)
  \/ \E t \in Tasks : ReferenceStore(t)
  \/ \E t \in Tasks : Finish(t)

SpecReference == InitUsers /\ [][NextReference]_vars

\* create_user under the dev bypass without a configured provider (the
\* setup of the test suite): every request resolves to the ADMIN s1
CreateConfigs == { c \in DevConfigs : ~cognito_configured(c) }

InitCreate ==
  /\ settings \in CreateConfigs
  /\ middleware_installed = auth_disabled(settings)
  /\ db = UserTable
  /\ clock = 0
  /\ jwks_cache = {}
  /\ jwks_fetched_at = 0
  /\ ctx = [x \in 0..MaxTasks |-> "none"]
  /\ task = [t \in Tasks |-> IdleTask]
  /\ last_stored = << >>
  /\ last_ok_now = -1
  /\ ref_cache = EmptyRefCache

NextCreate ==
  \/ \E t \in Tasks, arg \in CreateInputs : StartEndpoint(t, NoToken, "s1", "create", arg)
  \/ \E t \in Tasks : GetCurrentUser(t)
  \/ \E t \in Tasks : DevLookup(t)
  \/ \E t \in Tasks : CheckRole(t)
  \/ \E t \in Tasks : CreateUserCheck(t)
  \/ \E t \in Tasks : CreateUserCommit(t)
  \/ \E t \in Tasks : Finish(t)

SpecCreate == InitCreate /\ [][NextCreate]_vars

\* _verify_cognito_jwt on its own.  It is synchronous, so calls never overlap
\* on the event loop: one slot holds the call made last, its arguments in
\* token and jwks, its outcome in status, detail and sub
VerifySlot == 1

VerifyCall(tok, jwks) ==
  /\ task[VerifySlot].pc = "idle"
  /\ LET v == VerifyCognitoJwt(tok, jwks) IN
     task' = [task EXCEPT ![VerifySlot] =
       [IdleTask EXCEPT !.kind = "verify", !.pc = "done", !.token = tok, !.jwks = jwks,
                        !.status = v.status, !.detail = v.detail, !.sub = v.sub]]
  /\ UNCHANGED <<settings, middleware_installed, db, clock, jwks_cache, jwks_fetched_at, ctx, last_stored, last_ok_now, ref_cache>>

NextVerify ==
  \/ \E tok \in VerifyTokens, jwks \in VerifyKeySets : VerifyCall(tok, jwks)
  \/ Finish(VerifySlot)

SpecVerify == InitRotation /\ [][NextVerify]_vars

(* ====================== properties of the request path ================== *)
\* the token verifies against the key set: every check of 4.2 passes
ValidFor(tk, jwks) ==
  /\ tk.present /\ tk.wf
  /\ \E k \in jwks : k.kid = tk.kid /\ k.mat = tk.sig
  /\ ~tk.expired /\ tk.iss_ok /\ tk.use = "access"

BypassActive == settings.environment = "development" /\ settings.dev_skip_auth

ProviderConfigured ==
  settings.cognito_user_pool_id # "" /\ settings.cognito_app_client_id # ""

Resolved(t) == task[t].kind = "request" /\ task[t].pc = "done" /\ task[t].status = 200

\* C1: without the dev bypass, a request obtains a user only if its bearer
\* token verifies against the key set _get_jwks returned to this request, and
\* the user is the one whose cognito_user_id is the token's subject
C1_UserOnlyWithVerifiedToken ==
  \A t \in Tasks : (Resolved(t) /\ ~BypassActive) =>
    /\ task[t].gotJwks
    /\ ValidFor(task[t].token, task[t].jwks)
    /\ \E u \in db : u.id = task[t].uid /\ u.cognito_user_id = task[t].token.sub

\* a production request resolved to user 1 with a verified token, another
\* request with a forged token turned away
C1_Witness ==
  /\ ~BypassActive
  /\ \E t \in Tasks : Resolved(t) /\ task[t].uid = 1 /\ task[t].token = Good1
  /\ \E t \in Tasks : task[t].pc = "done" /\ task[t].token = Forged1 /\ task[t].status = 401
                      /\ task[t].jwks # {}

\* C2: outside development the bypass flag has no effect: no middleware, the
\* override value is never set or read, and a user is obtained only with a
\* valid bearer token
C2_BypassOnlyInDevelopment ==
  settings.environment \in {"staging", "production"} =>
    /\ ~middleware_installed
    /\ \A x \in DOMAIN ctx : ctx[x] = "none"
    /\ \A t \in Tasks : ~task[t].ctxRead
    /\ \A t \in Tasks : Resolved(t) => ValidFor(task[t].token, task[t].jwks)

\* production with the flag set: a header-only request is refused and a
\* request with a valid token and a header resolves by the token
C2_Witness ==
  /\ settings.environment = "production" /\ settings.dev_skip_auth
  /\ \E t \in Tasks : task[t].pc = "done" /\ task[t].header = "s3"
                      /\ ~task[t].token.present /\ task[t].status = 401
  /\ \E t \in Tasks : Resolved(t) /\ task[t].header = "s3" /\ task[t].uid = 1

\* C3: every identity get_current_user returns is an active user
C3_ResolvedUserIsActive ==
  \A t \in Tasks : Resolved(t) => \E u \in db : u.id = task[t].uid /\ u.is_active

\* C4: what get_current_user reads from the override channel is the
\* X-Dev-User-ID value of its own request
C4_OverrideIsRequestScoped ==
  \A t \in Tasks : task[t].ctxRead => task[t].readSub = task[t].header

\* two requests in flight at once, with and without the header, both read
C4_Witness ==
  \E t1, t2 \in Tasks :
    /\ task[t1].pc = "dev_lookup" /\ task[t1].ctxRead /\ task[t1].header = "s2"
    /\ task[t2].pc = "dev_lookup" /\ task[t2].ctxRead /\ task[t2].header = "none"

\* a request whose get_current_user has run past its first line
Entered(t) == task[t].kind = "request" /\ task[t].pc # "dep"

\* C15: without the bypass, a request without a bearer token ends 401 "Not
\* authenticated" whether or not the provider is configured, and a request
\* with a token under an unconfigured provider ends 503; neither starts a
\* fetch, obtains a key set, verifies or looks a user up
C15_PreconditionsInOrder ==
  \A t \in Tasks :
    (Entered(t) /\ ~BypassActive) =>
      /\ ~task[t].token.present =>
           /\ task[t].pc = "done" /\ task[t].status = 401
           /\ task[t].detail = "Not authenticated"
           /\ task[t].nfetch = 0 /\ ~task[t].gotJwks /\ task[t].uid = 0
      /\ (task[t].token.present /\ ~ProviderConfigured) =>
           /\ task[t].pc = "done" /\ task[t].status = 503
           /\ task[t].detail = "Authentication is not configured on this server"
           /\ task[t].nfetch = 0 /\ ~task[t].gotJwks /\ task[t].uid = 0

\* under an unconfigured provider one request without a token got 401 and one
\* with a token got 503
C15_Witness ==
  /\ ~BypassActive /\ ~ProviderConfigured
  /\ \E t \in Tasks : task[t].pc = "done" /\ ~task[t].token.present /\ task[t].status = 401
  /\ \E t \in Tasks : task[t].pc = "done" /\ task[t].token = Good1 /\ task[t].status = 503

\* the subject a finished request looked up in the users table, "none" if it
\* made no lookup by subject: the override value in the dev branch (line 139),
\* the verified token's sub in the production branch (line 177)
LookedUp(t) ==
  IF task[t].kind # "request" \/ task[t].pc # "done" THEN "none"
  ELSE IF task[t].ctxRead
       THEN (IF task[t].readSub = "" THEN "none" ELSE task[t].readSub)
  ELSE task[t].sub

\* C16: of two finished requests, one whose looked-up subject matches no
\* user and one whose looked-up subject matches an inactive user, both get
\* the same 401 with the same message
C16_NotFoundAndInactiveAlike ==
  \A t1, t2 \in Tasks :
    ( /\ LookedUp(t1) # "none" /\ LookedUp(t2) # "none"
      /\ FindUserBySub(db, LookedUp(t1)) = NoUser
      /\ FindUserBySub(db, LookedUp(t2)) # NoUser
      /\ ~FindUserBySub(db, LookedUp(t2)).is_active ) =>
        /\ task[t1].status = 401 /\ task[t2].status = 401
        /\ task[t1].detail = task[t2].detail

(* ====================== properties of the signing-key cache ============= *)
\* this step is task t calling _get_jwks (bare, or from get_current_user)
JwksCalled(t) ==
  \/ task[t].pc = "idle" /\ task'[t].kind = "jwks"
  \/ task[t].pc = "dep" /\ task'[t].pc # "dep" /\ task[t].token.present /\ ProviderConfigured

\* this step is the failure of task t's GET
GetFailed(t) == task[t].pc = "fetching" /\ task'[t].pc \notin {"fetching", "closing"}

\* C5: once a fetch has succeeded, a call made less than the TTL after that
\* fetch was started returns the cached key set and starts no fetch
C5_NoFetchWithinTtl ==
  [][\A t \in Tasks :
       (JwksCalled(t) /\ last_ok_now >= 0 /\ clock - last_ok_now < JwksCacheTtl) =>
         /\ task'[t].nfetch = 0
         /\ task'[t].gotJwks /\ task'[t].jwks = jwks_cache]_vars

\* C6: a call that finds a cached key set of age >= TTL starts exactly one
\* fetch; when the fetch succeeds, cache and timestamp are replaced together,
\* and the call returns the key set it fetched
C6_StaleCacheRefetchedOnce ==
  [][\A t \in Tasks :
       /\ (JwksCalled(t) /\ jwks_cache # {} /\ clock - jwks_fetched_at >= JwksCacheTtl) =>
            task'[t].pc = "fetching" /\ task'[t].stale /\ task'[t].nfetch = 1
       /\ (task[t].stale /\ task'[t].pc # "idle") => task'[t].nfetch = 1
       /\ (task[t].stale /\ task[t].pc = "fetching" /\ task'[t].pc = "closing") =>
            jwks_cache' = task'[t].own /\ jwks_fetched_at' = task[t].now
       /\ (task[t].stale /\ task[t].pc = "closing" /\ task'[t].pc # "closing") =>
            task'[t].gotJwks /\ task'[t].jwks = task[t].own]_vars

\* C7: when a fetch fails after some earlier fetch has succeeded, _get_jwks
\* returns the cached key set and does not raise
C7_StaleReturnedOnFailure ==
  [][\A t \in Tasks :
       (GetFailed(t) /\ last_ok_now >= 0) =>
         /\ task'[t].gotJwks /\ task'[t].jwks = jwks_cache
         /\ task'[t].status # 503]_vars

\* C8: when a fetch fails and no fetch has ever succeeded, the call ends with
\* 503 Service Unavailable, and so does the request that made it
C8_UnavailableWhenNeverCached ==
  [][\A t \in Tasks :
       (GetFailed(t) /\ last_ok_now = -1) =>
         /\ task'[t].pc = "done" /\ task'[t].status = 503
         /\ ~task'[t].gotJwks /\ task'[t].uid = 0]_vars

\* a request with a good token whose key fetch failed before any key set was
\* ever stored has ended with the 503 of _get_jwks
C8_Witness ==
  /\ last_ok_now = -1
  /\ \E t \in Tasks : /\ task[t].kind = "request" /\ task[t].pc = "done"
                      /\ task[t].token = Good1 /\ task[t].nfetch = 1
                      /\ task[t].status = 503
                      /\ task[t].detail = "Authentication service unavailable"

\* C9: with the pool id or the client id unset, no _get_jwks call starts a
\* fetch and every one returns the empty key set
C9_UnconfiguredNeverFetches ==
  (settings.cognito_user_pool_id = "" \/ settings.cognito_app_client_id = "") =>
    \A t \in Tasks :
      /\ task[t].pc \notin {"fetching", "closing"} /\ task[t].nfetch = 0
      /\ (task[t].kind = "jwks" /\ task[t].pc # "idle") =>
           task[t].pc = "done" /\ task[t].status = 200 /\ task[t].gotJwks /\ task[t].jwks = {}

\* only the client id is unset, and a _get_jwks call has returned
C9_Witness ==
  /\ settings.cognito_user_pool_id = "pool" /\ settings.cognito_app_client_id = ""
  /\ clock > 0
  /\ \E t \in Tasks : task[t].kind = "jwks" /\ task[t].pc = "done" /\ task[t].jwks = {}

\* C10: the pair (key set, timestamp) is always the initial empty pair or the
\* complete key map and the timestamp of one and the same fetch
C10_CacheSwapAtomic ==
  <<jwks_cache, jwks_fetched_at>> = (IF last_stored = << >> THEN <<{}, 0>> ELSE last_stored)

\* two calls have both fetched and stored; the one that stored first is still
\* closing its client and the cache already holds the other's key set
C10_Witness ==
  \E t1, t2 \in Tasks :
    /\ t1 # t2
    /\ task[t1].pc = "closing" /\ task[t2].pc = "closing"
    /\ task[t1].own # task[t2].own /\ task[t1].own # {} /\ task[t2].own # {}
    /\ jwks_cache = task[t2].own

(* ====================== key rotation ==================================== *)
\* C11: a production request is refused with "Token key not found" only
\* after it has attempted a fetch of the key set itself, also when the cached
\* key set it found was within its TTL
C11_RefreshBeforeUnknownKey ==
  \A t \in Tasks :
    (task[t].kind = "request" /\ task[t].pc = "done"
       /\ task[t].detail = "Token key not found") => task[t].nfetch >= 1

(* ====================== properties of _verify_cognito_jwt =============== *)
\* a finished call of _verify_cognito_jwt
Verified(t) == task[t].kind = "verify" /\ task[t].pc = "done"

\* C12: a token validly signed by a key of the key set under the token's
\* kid, unexpired, with the configured issuer and token_use "access" is
\* accepted, and the claims returned carry the token's own subject
C12_ValidTokenYieldsSubject ==
  \A t \in Tasks :
    (Verified(t) /\ ValidFor(task[t].token, task[t].jwks)) =>
      task[t].status = 200 /\ task[t].sub = task[t].token.sub

\* a valid token for subject s9, signed by the second key of a two-key set,
\* was accepted
C12_Witness ==
  \E t \in Tasks :
    /\ Verified(t) /\ task[t].status = 200 /\ task[t].sub = "s9"
    /\ task[t].token.kid = "k2" /\ Cardinality(task[t].jwks) = 2

\* the checks of _verify_cognito_jwt, each taken alone
FailsHeader(tk) == ~tk.wf
FailsKeyLookup(tk, jwks) == tk.kid \notin Kids(jwks)
FailsSignature(tk, jwks) == ~ \E k \in jwks : k.kid = tk.kid /\ k.mat = tk.sig
FailsExpiry(tk) == tk.expired
FailsIssuer(tk) == ~tk.iss_ok
FailsTokenUse(tk) == tk.use # "access"

\* the errors the first failing step may report, in the order header parse,
\* key lookup, signature/expiry, issuer, token_use
FirstFailure(tk, jwks) ==
  IF FailsHeader(tk) THEN {"Invalid token header"}
  ELSE IF FailsKeyLookup(tk, jwks) THEN {"Token key not found"}
  ELSE IF FailsSignature(tk, jwks) \/ FailsExpiry(tk)
       THEN (IF FailsSignature(tk, jwks) THEN {"Token verification failed"} ELSE {})
            \cup (IF FailsExpiry(tk) THEN {"Token has expired"} ELSE {})
  ELSE IF FailsIssuer(tk) THEN {"Invalid token issuer"}
  ELSE IF FailsTokenUse(tk) THEN {"Expected access token"}
  ELSE {}

\* C13: a token that fails one or several checks is refused with 401 and the
\* error of the earliest failing step
C13_FirstFailingStepReported ==
  \A t \in Tasks :
    (Verified(t) /\ FirstFailure(task[t].token, task[t].jwks) # {}) =>
      /\ task[t].status = 401
      /\ task[t].detail \in FirstFailure(task[t].token, task[t].jwks)

\* C14: a token correctly signed by the key under its kid whose exp is in
\* the past is refused with 401 "Token has expired", whatever its issuer and
\* token_use are
C14_ExpiredReportedAsExpired ==
  \A t \in Tasks :
    (Verified(t) /\ task[t].token.wf /\ ~FailsSignature(task[t].token, task[t].jwks)
       /\ task[t].token.expired) =>
      task[t].status = 401 /\ task[t].detail = "Token has expired"

\* an expired, correctly signed token that also has a foreign issuer and
\* token_use "id" was refused as expired
C14_Witness ==
  \E t \in Tasks :
    /\ Verified(t) /\ task[t].detail = "Token has expired"
    /\ ~task[t].token.iss_ok /\ task[t].token.use = "id"

(* ====================== properties of the dev bypass ==================== *)
\* C17: with the bypass active, a request whose X-Dev-User-ID header is the
\* cognito_user_id of an existing user resolves to exactly that user
C17_HeaderResolvesThatUser ==
  \A t \in Tasks :
    (BypassActive /\ task[t].kind = "request" /\ task[t].pc = "done"
       /\ \E u \in db : u.cognito_user_id = task[t].header) =>
      /\ task[t].status = 200
      /\ \E u \in db : u.id = task[t].uid /\ u.cognito_user_id = task[t].header

\* a request naming the OFFICER s2 got user 2 while a request without header
\* got an ADMIN
C17_Witness ==
  /\ BypassActive
  /\ \E t \in Tasks : Resolved(t) /\ task[t].header = "s2" /\ task[t].uid = 2
  /\ \E t \in Tasks : Resolved(t) /\ task[t].header = "none" /\ task[t].uid # 2

\* the active ADMIN created last
MostRecentActiveAdmin(users) ==
  CHOOSE u \in ActiveAdmins(users) : \A v \in ActiveAdmins(users) : created_at(v) <= created_at(u)

\* C18: with the bypass active, a request without X-Dev-User-ID header
\* resolves to the most recently created active ADMIN when there is one and
\* ends 401 when there is none
C18_FallbackIsMostRecentAdmin ==
  \A t \in Tasks :
    (BypassActive /\ task[t].kind = "request" /\ task[t].pc = "done"
       /\ task[t].header = "none") =>
      IF ActiveAdmins(db) # {}
      THEN task[t].status = 200 /\ task[t].uid = MostRecentActiveAdmin(db).id
      ELSE task[t].status = 401 /\ task[t].detail = "Dev auth: no matching user found"

(* ====================== properties of the role guard ==================== *)
\* a finished request to an endpoint behind require_role
GuardedDone(t) == task[t].kind = "request" /\ task[t].guarded /\ task[t].pc = "done"

\* C19: when get_current_user returned user u to a guard built from roles,
\* the request passes with u iff roles is empty or u.role is in roles, and
\* otherwise ends 403 with a detail naming roles
C19_GuardDecision ==
  \A t \in Tasks :
    (GuardedDone(t) /\ task[t].role # "none") =>
      IF task[t].roles = {} \/ task[t].role \in task[t].roles
      THEN /\ task[t].status = 200 /\ task[t].named = {}
           /\ \E u \in db : u.id = task[t].uid /\ u.role = task[t].role
      ELSE /\ task[t].status = 403 /\ task[t].detail = "Requires one of roles"
           /\ task[t].named = task[t].roles

\* behind require_role("ADMIN") the OFFICER s2 was refused with 403 and the
\* ADMIN s1 was let through, both by their verified tokens
C19_Witness ==
  /\ ~BypassActive
  /\ \E t \in Tasks : /\ GuardedDone(t) /\ task[t].roles = {"ADMIN"}
                      /\ task[t].token = Good2 /\ task[t].status = 403
  /\ \E t \in Tasks : /\ GuardedDone(t) /\ task[t].roles = {"ADMIN"}
                      /\ task[t].token = Good1 /\ task[t].status = 200 /\ task[t].uid = 1

\* C20: a guarded request whose get_current_user failed ends with the 401 or
\* 503 an unguarded request gets in the same situation, never with 403, and
\* _check_role runs only with a resolved user
C20_GuardPropagatesFailure ==
  \A t \in Tasks :
    /\ (task[t].pc = "guard") => (task[t].role # "none" /\ task[t].uid # 0)
    /\ (GuardedDone(t) /\ task[t].role = "none") =>
         /\ task[t].status \in {401, 503}
         /\ task[t].detail # "Requires one of roles" /\ task[t].named = {}
         /\ \A t2 \in Tasks :
              ( /\ task[t2].kind = "request" /\ ~task[t2].guarded /\ task[t2].pc = "done"
                /\ task[t2].token = task[t].token /\ task[t2].header = task[t].header
                /\ task[t2].nfetch = task[t].nfetch
                /\ task[t2].gotJwks = task[t].gotJwks /\ task[t2].jwks = task[t].jwks ) =>
                  task[t2].status = task[t].status /\ task[t2].detail = task[t].detail

\* a request behind require_role("ADMIN") and an unguarded request, both
\* with the same good token, both ended 503 on a failed key fetch
C20_Witness ==
  \E t1, t2 \in Tasks :
    /\ GuardedDone(t1) /\ task[t1].roles = {"ADMIN"} /\ task[t1].token = Good1
    /\ task[t1].status = 503 /\ task[t1].nfetch = 1
    /\ task[t2].kind = "request" /\ ~task[t2].guarded /\ task[t2].pc = "done"
    /\ task[t2].token = Good1 /\ task[t2].status = 503 /\ task[t2].nfetch = 1

(* ====================== error typing ==================================== *)
\* C21: every finished request either obtained its user or ended with one of
\* the typed errors 401, 403, 503
C21_FailuresAreTyped ==
  \A t \in Tasks :
    (task[t].kind = "request" /\ task[t].pc = "done") =>
      task[t].status \in {200, 401, 403, 503}

(* ====================== properties of the users endpoints =============== *)
\* task t takes the step that commits its INSERT or UPDATE
Commits(t) == task[t].pc \in {"create_commit", "update_commit"} /\ task'[t].pc = "done"

\* C22: a request to create, list, get, update or reset-password that
\* resolved to a user who is not ADMIN ends 403, and the users table changes
\* only in the commit of a request that resolved to an ADMIN
C22_UserManagementAdminOnly ==
  [][ /\ \A t \in Tasks :
           ( /\ task'[t].kind = "request" /\ task'[t].pc = "done"
             /\ task'[t].op \in {"create", "list", "get", "update", "reset"}
             /\ task'[t].role \notin {"none", "ADMIN"} ) =>
               task'[t].status = 403
      /\ (db' # db) => \E t \in Tasks : Commits(t) /\ task[t].role = "ADMIN" ]_vars

\* the ADMIN s1 has changed its own row; its next update was refused with
\* 403, and so was a create by the OFFICER s2
C22_Witness ==
  /\ db # UserTable
  /\ \E t \in Tasks : /\ task[t].pc = "done" /\ task[t].token = Good1
                      /\ task[t].op = "update" /\ task[t].status = 403
  /\ \E t \in Tasks : /\ task[t].pc = "done" /\ task[t].token = Good2
                      /\ task[t].op = "create" /\ task[t].status = 403

\* C23: a create_user whose email belongs to an existing user ends 409, and
\* no two rows of the users table ever share an email
C23_EmailsUnique ==
  /\ \A u, v \in db : (u.email = v.email) => (u = v)
  /\ \A t \in Tasks :
       (task[t].op = "create" /\ task[t].pc = "done" /\ task[t].status = 201) =>
         \E u \in db : u.email = task[t].arg.email

(* ================= frame of the dev bypass and of the resolver ========== *)
\* the users a dev-bypass request with this header may resolve to
DevCandidates(users, hdr) ==
  IF hdr \notin {"none", ""} THEN {FindUserBySub(users, hdr)} \ {NoUser}
  ELSE ActiveAdmins(users)

\* C24: with the bypass active no step of a request enters _get_jwks or
\* _verify_cognito_jwt or starts a fetch, the key cache and its timestamp
\* never change, and the outcome is decided by the header and the users
\* table alone, whatever the bearer token
C24_BypassSkipsProduction ==
  [][ BypassActive =>
        /\ UNCHANGED <<jwks_cache, jwks_fetched_at>>
        /\ \A t \in Tasks : task'[t].kind = "request" =>
             /\ task'[t].nfetch = 0 /\ ~task'[t].gotJwks /\ task'[t].sub = "none"
             /\ task'[t].pc \notin {"fetching", "closing", "lookup"}
             /\ task'[t].pc = "done" =>
                  IF DevCandidates(db, task'[t].header) = {}
                  THEN task'[t].status = 401
                       /\ task'[t].detail = "Dev auth: no matching user found"
                  ELSE task'[t].status = 200
                       /\ \E u \in DevCandidates(db, task'[t].header) : u.id = task'[t].uid ]_vars

\* with a provider configured, a request carrying a forged token and one
\* carrying none, both naming s2, resolved to user 2 and the key cache is
\* still empty
C24_Witness ==
  /\ BypassActive /\ cognito_configured(settings)
  /\ jwks_cache = {}
  /\ \E t \in Tasks : Resolved(t) /\ task[t].token = Forged1 /\ task[t].header = "s2" /\ task[t].uid = 2
  /\ \E t \in Tasks : Resolved(t) /\ task[t].token = NoToken /\ task[t].header = "s2" /\ task[t].uid = 2

(* ====================== cancellation ==================================== *)
\* the key maps a successful fetch can build
CompleteKeySets == { JwksFromKeys(r.keys) : r \in { x \in Responses : FetchOk(x) } }

\* C25: a _get_jwks call cancelled while its GET is in flight stores
\* nothing: the step leaves the key set and the timestamp as they were, and
\* at all times the cache is the pair one fetch stored (or the initial empty
\* pair) and every key set handed to a caller is a complete one
C25_CancelledFetchStoresNothing ==
  [][ /\ \A t \in Tasks :
           (task[t].pc = "fetching" /\ task'[t].detail = "cancelled") =>
             UNCHANGED <<jwks_cache, jwks_fetched_at, last_stored>>
      /\ <<jwks_cache', jwks_fetched_at'>> = (IF last_stored' = << >> THEN <<{}, 0>> ELSE last_stored')
      /\ \A t \in Tasks : task'[t].gotJwks => task'[t].jwks \in CompleteKeySets \cup {{}} ]_vars

\* one call was cancelled during its fetch, having stored nothing, and
\* another call fetched and was handed the complete key set now cached
C25_Witness ==
  \E t1, t2 \in Tasks :
    /\ task[t1].pc = "done" /\ task[t1].detail = "cancelled"
    /\ task[t1].nfetch = 1 /\ task[t1].own = {}
    /\ task[t2].pc = "done" /\ task[t2].gotJwks /\ task[t2].nfetch = 1
    /\ task[t2].jwks = jwks_cache /\ jwks_cache # {} /\ jwks_fetched_at > 0

(* ====================== resolution and the users table ================== *)
\* the positions of a request inside get_current_user and _check_role
Resolving == {"dep", "fetching", "closing", "lookup", "dev_lookup", "guard"}

\* C26: no step of get_current_user or of the role guard, whether it
\* returns a user or raises, changes the users table
C26_ResolutionLeavesUsersAlone ==
  [][ \A t \in Tasks :
        (task[t].pc \in Resolving /\ task'[t] # task[t]) => db' = db ]_vars

\* on a table an update_user has changed, one request was refused at the
\* lookup and another was resolved, and the table still holds all its rows
C26_Witness ==
  /\ db # UserTable /\ Cardinality(db) = Cardinality(UserTable)
  /\ \E t \in Tasks : task[t].pc = "done" /\ task[t].token = Good1
                        /\ task[t].status = 401 /\ task[t].detail = "User not found or inactive"
  /\ \E t \in Tasks : Resolved(t) /\ task[t].token = Good2 /\ task[t].op = "me"

\* C29: the user is read from the users table on every request: the lookup
\* of a request decides on the row as the table holds it at that moment, so
\* a request of a deactivated user ends 401, and the guard decides on the
\* role just read, so a request of a demoted ADMIN to an ADMIN route ends 403
C29_IdentityReadEachRequest ==
  [][ \A t \in Tasks :
        /\ (task[t].pc = "lookup" /\ task'[t].pc # "lookup") =>
             LET user == FindUserBySub(db, task[t].sub) IN
             IF user = NoUser \/ ~user.is_active
             THEN task'[t].pc = "done" /\ task'[t].status = 401
             ELSE task'[t].uid = user.id /\ task'[t].role = user.role
        /\ (task[t].pc = "guard" /\ task'[t].pc # "guard" /\ task[t].role \notin task[t].roles) =>
             (task'[t].pc = "done" /\ task'[t].status = 403)
        /\ (task'[t].pc \in {"handler", "update_commit"} /\ EndpointGuarded(task'[t].op)) =>
             task'[t].role = "ADMIN" ]_vars

\* two update_user requests of s1 passed the guard together; after the one
\* demoting s1 committed, the next request of s1 to update_user ended 403, and
\* after the one deactivating s1 committed, the next request of s1 ended 401
C29_Witness ==
  /\ \E u \in db : u.cognito_user_id = "s1" /\ u.role = "OFFICER" /\ ~u.is_active
  /\ \E t \in Tasks : /\ task[t].pc = "done" /\ task[t].token = Good1 /\ task[t].op = "update"
                        /\ task[t].status = 403 /\ task[t].role = "OFFICER"
  /\ \E t \in Tasks : /\ task[t].pc = "done" /\ task[t].token = Good1
                        /\ task[t].status = 401 /\ task[t].detail = "User not found or inactive"

(* ====================== the cache over time ============================= *)
\* C27: the cache timestamp never decreases, and a fetch never replaces the
\* key set stored by a fetch that started later than it did
C27_CacheNeverMovesBack ==
  [][ /\ jwks_fetched_at' >= jwks_fetched_at
      /\ \A t \in Tasks :
           (task[t].pc = "fetching" /\ task'[t].pc = "closing") => task[t].now >= last_ok_now ]_vars

\* C28: a failed fetch changes neither the cached key set nor its
\* timestamp, and with a provider configured every _get_jwks call made when
\* the timestamp is a TTL or more in the past starts a fetch
C28_FailureDoesNotRenew ==
  [][ \A t \in Tasks :
        /\ GetFailed(t) => UNCHANGED <<jwks_cache, jwks_fetched_at>>
        /\ (JwksCalled(t) /\ ProviderConfigured /\ clock - jwks_fetched_at >= JwksCacheTtl) =>
             task'[t].pc = "fetching" /\ task'[t].nfetch = 1 ]_vars

\* a call that found the key set expired failed its fetch and was handed the
\* expired set; the timestamp is still a TTL in the past and another call is
\* fetching again
C28_Witness ==
  \E t1, t2 \in Tasks :
    /\ task[t1].pc = "done" /\ task[t1].stale /\ task[t1].nfetch = 1
    /\ task[t1].gotJwks /\ task[t1].jwks = jwks_cache /\ jwks_cache # {}
    /\ clock - jwks_fetched_at >= JwksCacheTtl
    /\ task[t2].pc = "fetching" /\ task[t2].stale /\ task[t2].now = clock

(* ====================== the reference cache ============================= *)
\* C30: reference data, cached or freshly read, is only ever returned to a
\* request that resolved to a user, SLA configuration only to one that
\* resolved to an ADMIN; a request resolved to another role ends 403 at
\* get_sla_config, and only requests that passed write the cache
C30_CacheBehindAuthorization ==
  [][ /\ \A t \in Tasks :
           /\ task'[t].body # "none" =>
                /\ task'[t].status = 200 /\ task'[t].role # "none"
                /\ task'[t].body = RefData[task'[t].op]
                /\ task'[t].op = "sla_config" => task'[t].role = "ADMIN"
           /\ (task'[t].pc = "done" /\ task'[t].op = "sla_config"
                 /\ task'[t].role \notin {"none", "ADMIN"}) =>
                (task'[t].status = 403 /\ task'[t].body = "none")
           /\ (task'[t].pc = "done" /\ task'[t].op \in RefKeys /\ ~task'[t].token.present) =>
                (task'[t].status = 401 /\ task'[t].body = "none")
      /\ (ref_cache' # ref_cache) =>
           \E t \in Tasks : /\ task[t].pc \in {"handler", "ref_query"}
                             /\ task'[t] # task[t] /\ task[t].role # "none" ]_vars

\* while both entries are cached and within their TTL, a request of the
\* OFFICER s2 for the SLA configuration ended 403 and a request without token
\* for the service types ended 401
C30_Witness ==
  /\ \A key \in RefKeys : ref_cache[key].present /\ clock - ref_cache[key].ts < RefCacheTtl
  /\ \E t \in Tasks : /\ task[t].pc = "done" /\ task[t].token = Good2
                        /\ task[t].op = "sla_config" /\ task[t].status = 403
  /\ \E t \in Tasks : /\ task[t].pc = "done" /\ task[t].token = NoToken
                        /\ task[t].op = "service_types" /\ task[t].status = 401

====
